---- MODULE Spec2Model ----
(***************************************************************************)
(* A model of the non-visual core of hammer-irview: the Verilog module     *)
(* registry (VerilogModuleHierarchy), its two-phase load, instance         *)
(* resolution and path lookup, the placement-constraint deserializer and   *)
(* the routing-grid alignment check.                                       *)
(*                                                                         *)
(* Python objects are modelled with their identity: a VerilogModule is an  *)
(* id into the heap `objs`, a VerilogModuleInstance is the pair            *)
(* <<owning module id, instance name>> (an instance object is created once *)
(* per name in a module's `instances` dict and never replaced), and a      *)
(* constraint is an index into `cons`.                                     *)
(***************************************************************************)
EXTENDS Integers, Sequences, FiniteSets, TLC

VARIABLES
  modules,         \* VerilogModuleHierarchy.modules: module name -> module object id
  objs,            \* heap of VerilogModule objects ever created: id -> fields
  macro_library,   \* names for which MacroLibrary.get_macro returns a macro
  unknown_macros,  \* VerilogModuleHierarchy.unknown_macros: key -> set of instances
  top_level,       \* VerilogModuleHierarchy.top_level: module object id, 0 for None
  next_id,         \* next fresh module object id
  loads,           \* number of loads started so far
  last_load,       \* the file list, macro library and outcome of the latest load
  last_op,         \* the last operation on the module registry and its argument
  cons,            \* heap of the constraint objects attached so far: index -> fields
  layers,          \* VerilogModuleHierarchy.layers: metal name -> TechMetalLayer
  rendered,        \* what the latest render_module drew: constraint -> rectangle
  last_reg,        \* the latest register_constraints_in_driver call and its outcome
  checked,         \* per constraint: its refreshes since the layers were last set
  align,           \* a check_alignment call: its layer, its box and its result
  looked,          \* a get_module_by_path call: its path and what it returned
  bg,              \* the background thread: where it is in its load
  seen             \* what the latest read from the other thread found

hvars == <<modules, macro_library, unknown_macros, top_level, next_id, loads, last_load>>
cvars == <<cons, layers, rendered, last_reg, checked>>
tvars == <<looked, bg, seen>>

vars == <<modules, objs, macro_library, unknown_macros, top_level,
          next_id, loads, last_load, last_op, cons, layers, rendered, last_reg, checked,
          align, looked, bg, seen>>

----------------------------------------------------------------------------
(* Bounds of the model *)

MaxLoads == 2
MaxRegisters == 1
MaxChecks == 2
MaxPitch == 3
MaxCoord == 3
MaxPathLen == 5

----------------------------------------------------------------------------
(* Values an instance's `module` field, or a path lookup, can hold *)

StrRef(n)   == [k |-> "str",    n |-> n,  id |-> 0]   \* a bare type name (Pending)
ModRef(i)   == [k |-> "module", n |-> "", id |-> i]   \* a VerilogModule object
MacroRef(n) == [k |-> "macro",  n |-> n,  id |-> 0]   \* the IRVMacro named n
NoneRef     == [k |-> "none",   n |-> "", id |-> 0]   \* Python None

\* Truthiness of such a value (no class involved defines __bool__ or __len__;
\* a type name matched by \w+ is a non-empty string).
Truthy(r) == r.k # "none"

----------------------------------------------------------------------------
(* The input universe: scanned source files *)

\* What re.findall yields for each file: its module definitions in file
\* order, each with the (type name, instance name) pairs found in its body.
\* "missing.sv" stands for a path that open() cannot read.
FileNames == {"top.sv", "leaf.sv", "soc.sv", "missing.sv"}

Unreadable == {"missing.sv"}

Def(name, body) == [name |-> name, body |-> body]

FileContents(f) ==
  CASE f = "top.sv"   -> << Def("top", << <<"leaf", "inst0">> >>) >>
    [] f = "leaf.sv"  -> << Def("leaf", << >>) >>
    [] f = "soc.sv"   -> << Def("top", << <<"mid", "u1">>, <<"foo_macro", "inst0">>,
                                         <<"leaf", "u1">> >>),
                           Def("mid", << <<"leaf", "inst0">>, <<"ghost", "u1">> >>) >>
    [] OTHER         -> << >>

ModuleNames == {"top", "mid", "leaf"}
InstNames   == {"inst0", "u1"}
MacroNames  == {"foo_macro", "leaf"}
TypeNames   == ModuleNames \cup MacroNames \cup {"ghost"}

\* Values of vlsi.inputs.top_module: a module of the design, or a name no
\* file defines.
TopModuleNames == {"top", "ghost"}

\* The ordered file lists a load can be given (the driver's
\* synthesis.inputs.input_files, or the order a directory walk yields).
FileLists ==
  { << "top.sv", "leaf.sv" >>, << "leaf.sv", "top.sv" >>, << "leaf.sv" >>,
    << "soc.sv" >>, << "soc.sv", "leaf.sv" >>,
    << "top.sv", "soc.sv" >>, << "soc.sv", "top.sv" >>,
    << "top.sv", "missing.sv", "leaf.sv" >> }

----------------------------------------------------------------------------
(* MacroLibrary (external collaborator) *)

\* get_macro(name) -> Macro | absent
get_macro(lib, n) == IF n \in lib THEN MacroRef(n) ELSE NoneRef

----------------------------------------------------------------------------
(* VerilogModule and the registry state threaded through a load *)

\* VerilogModule.__init__: no instances; `body` is the second component of
\* the (module, body) tuple parse_verilog_file returns beside the object.
NewModule(name, file, body) ==
  [name |-> name, file |-> file, body |-> body, instances |-> << >>,
   top_constraint |-> 0, children |-> << >>,
   constraints |-> << >>, constraints_list |-> << >>, constraints_indices |-> << >>]

\* The part of the registry a load reads and writes.
Hier == [modules |-> modules, objs |-> objs, unknown_macros |-> unknown_macros,
         next_id |-> next_id]

NoPending == [key \in InstNames |-> {}]

\* dict.get(key, default) on the module map
ModulesGet(h, n, default) ==
  IF n \in DOMAIN h.modules THEN ModRef(h.modules[n]) ELSE default

\* VerilogModuleHierarchy.get_module_by_name
get_module_by_name(h, n) == ModulesGet(h, n, NoneRef)

----------------------------------------------------------------------------
(* VerilogModuleHierarchy.parse_module_instances *)

\* The instance object for `iname` in module `mid`: the one already in the
\* instances dict, else a new one carrying the raw type name.
InstanceFor(h, mid, tn, iname) ==
  IF iname \in DOMAIN h.objs[mid].instances
  THEN h.objs[mid].instances[iname]
  ELSE [name |-> iname, module |-> StrRef(tn)]

\* Revalidate as it would be if the module map were not consulted and the
\* instance fell back to the target's name.
RevalidateToName(h, ref) == StrRef(h.objs[ref.id].name)

\* Revalidate as it would be if a resolved instance kept the module object
\* it was bound to.
RevalidateKeepingObject(h, ref) == ref

\* Was resolved before: look the target's name up again, keep the name
\* itself when the module map no longer has it.
Revalidate(h, ref) ==
  LET nm == h.objs[ref.id].name IN ModulesGet(h, nm, StrRef(nm))

\* LookupType as it would be if the module map were asked before the macro
\* library.
LookupTypeModuleFirst(h, lib, n) ==
  IF n \in DOMAIN h.modules THEN ModRef(h.modules[n])
  ELSE LET m == get_macro(lib, n) IN IF Truthy(m) THEN m ELSE StrRef(n)

\* LookupType as it would be if the module map were never consulted.
LookupTypeMacroOnly(h, lib, n) ==
  LET m == get_macro(lib, n)
  IN IF Truthy(m) THEN m ELSE StrRef(n)

\* Not resolved yet: the macro library first, then the module map, else
\* the name stays.
LookupType(h, lib, n) ==
  LET m == get_macro(lib, n)
  IN IF Truthy(m) THEN m ELSE ModulesGet(h, n, StrRef(n))

\* ForgetUnknown as it would be if a resolved instance were never removed.
ForgetUnknownNever(um, key, inst) == um

\* Remove from unknown macros (if it exists); the index is keyed by the
\* instance name.
ForgetUnknown(um, key, inst) ==
  IF inst \in um[key] THEN [um EXCEPT ![key] = @ \ {inst}] ELSE um

\* Still unresolved after the earlier steps: log for later.
LogUnknown(um, key, inst) == [um EXCEPT ![key] = @ \cup {inst}]

\* The statements of one iteration, as another thread can see them apart.
\* First: the instance object is looked up and, when absent, created with
\* the raw type name and stored in the instances dict.
StepGetInstance(h, mid, tn, iname) ==
  [h EXCEPT !.objs[mid].instances = (iname :> InstanceFor(h, mid, tn, iname)) @@ @]

\* Second: the isinstance chain that rebinds inst_obj.module, with the
\* removal from the pending index in its str branch.
StepResolveInstance(h, lib, mid, iname) ==
  LET old == h.objs[mid].instances[iname].module
      new == CASE old.k = "module" -> Revalidate(h, old)
               [] old.k = "str"    -> LookupType(h, lib, old.n)
               [] OTHER            -> old
  IN [h EXCEPT !.objs[mid].instances[iname].module = new,
               !.unknown_macros = IF old.k = "str"
                                  THEN ForgetUnknown(@, iname, <<mid, iname>>)
                                  ELSE @]

\* Third: an instance that is still a str is added to the pending index.
StepLogInstance(h, mid, iname) ==
  IF h.objs[mid].instances[iname].module.k = "str"
  THEN [h EXCEPT !.unknown_macros = LogUnknown(@, iname, <<mid, iname>>)]
  ELSE h

\* One iteration of the loop over the instantiations of a body.
ParseInstance(h, lib, mid, tn, iname) ==
  LET inst_obj == InstanceFor(h, mid, tn, iname)
      inst     == <<mid, iname>>
      old      == inst_obj.module
      new      == CASE old.k = "module" -> Revalidate(h, old)
                    [] old.k = "str"    -> LookupType(h, lib, old.n)
                    [] OTHER            -> old
      um1      == IF old.k = "str"
                  THEN ForgetUnknown(h.unknown_macros, iname, inst)
                  ELSE h.unknown_macros
      um2      == IF old.k # "macro" /\ new.k = "str"
                  THEN LogUnknown(um1, iname, inst)
                  ELSE um1
      insts    == (iname :> [inst_obj EXCEPT !.module = new]) @@ h.objs[mid].instances
  IN [h EXCEPT !.objs[mid].instances = insts, !.unknown_macros = um2]

RECURSIVE ParseBody(_, _, _, _, _)
ParseBody(h, lib, mid, body, i) ==
  IF i > Len(body) THEN h
  ELSE ParseBody(ParseInstance(h, lib, mid, body[i][1], body[i][2]), lib, mid, body, i + 1)

parse_module_instances(h, lib, mid) ==
  ParseBody(h, lib, mid, h.objs[mid].body, 1)

----------------------------------------------------------------------------
(* Discovery and the two-phase load *)

\* parse_verilog_file: one new VerilogModule per definition of the file,
\* with fresh identities from `base` on.
parse_verilog_file(file, base) ==
  LET defs == FileContents(file)
  IN [k \in 1..Len(defs) |->
        [id |-> base + k - 1, obj |-> NewModule(defs[k].name, file, defs[k].body)]]

\* RegisterModule as it would be with first-write-wins (dict.setdefault).
RegisterModuleKeepFirst(mods, name, id) ==
  IF name \in DOMAIN mods THEN mods ELSE (name :> id) @@ mods

\* self.modules[vmodule_obj.name] = vmodule_obj
RegisterModule(mods, name, id) == (name :> id) @@ mods

RECURSIVE RegisterAll(_, _, _)
RegisterAll(h, found, k) ==
  IF k > Len(found) THEN h
  ELSE RegisterAll(
         [h EXCEPT !.modules = RegisterModule(h.modules, found[k].obj.name, found[k].id),
                   !.objs    = (found[k].id :> found[k].obj) @@ h.objs,
                   !.next_id = found[k].id + 1],
         found, k + 1)

\* The discovery loop: files in order; open() of an unreadable file raises
\* and the exception leaves the loop with what was registered so far.
RECURSIVE Discover(_, _, _, _)
Discover(h, files, i, modules_found) ==
  IF i > Len(files) THEN [h |-> h, found |-> modules_found, err |-> ""]
  ELSE IF files[i] \in Unreadable
       THEN [h |-> h, found |-> modules_found, err |-> "OSError"]
       ELSE LET mods == parse_verilog_file(files[i], h.next_id)
            IN Discover(RegisterAll(h, mods, 1), files, i + 1, modules_found \o mods)

RECURSIVE ResolveAll(_, _, _, _)
ResolveAll(h, lib, found, k) ==
  IF k > Len(found) THEN h
  ELSE ResolveAll(parse_module_instances(h, lib, found[k].id), lib, found, k + 1)

\* RegisterModules as it would be in a single phase: the instances of each
\* file's modules are resolved as soon as that file has been registered.
RECURSIVE DiscoverAndResolve(_, _, _, _)
DiscoverAndResolve(h, lib, files, i) ==
  IF i > Len(files) THEN [h |-> h, err |-> ""]
  ELSE IF files[i] \in Unreadable THEN [h |-> h, err |-> "OSError"]
       ELSE LET mods == parse_verilog_file(files[i], h.next_id)
            IN DiscoverAndResolve(ResolveAll(RegisterAll(h, mods, 1), lib, mods, 1),
                                  lib, files, i + 1)

RegisterModulesSinglePhase(h, lib, files) == DiscoverAndResolve(h, lib, files, 1)

\* RegisterModules as it would be if the instances of a module were resolved
\* as soon as the module itself has been registered.
RECURSIVE RegisterAndResolveEach(_, _, _, _)
RegisterAndResolveEach(h, lib, found, k) ==
  IF k > Len(found) THEN h
  ELSE RegisterAndResolveEach(
         parse_module_instances(RegisterAll(h, << found[k] >>, 1), lib, found[k].id),
         lib, found, k + 1)

RECURSIVE DiscoverResolvingEach(_, _, _, _)
DiscoverResolvingEach(h, lib, files, i) ==
  IF i > Len(files) THEN [h |-> h, err |-> ""]
  ELSE IF files[i] \in Unreadable THEN [h |-> h, err |-> "OSError"]
       ELSE DiscoverResolvingEach(
              RegisterAndResolveEach(h, lib, parse_verilog_file(files[i], h.next_id), 1),
              lib, files, i + 1)

RegisterModulesResolvingEach(h, lib, files) == DiscoverResolvingEach(h, lib, files, 1)

\* register_modules_from_driver / register_modules_from_directory: the
\* resolution loop runs only when discovery went through every file.
RegisterModules(h, lib, files) ==
  LET d == Discover(h, files, 1, << >>)
  IN IF d.err # "" THEN [h |-> d.h, err |-> d.err]
     ELSE [h |-> ResolveAll(d.h, lib, d.found, 1), err |-> ""]

----------------------------------------------------------------------------
(* Path lookup *)

\* A path is a sequence of tokens, each a name or the separator "/".
\* str.split('/'): the maximal runs of names between separators, an empty
\* run where two separators meet or the path starts or ends with one.
RECURSIVE SplitFrom(_, _, _, _)
SplitFrom(path, i, cur, acc) ==
  IF i > Len(path) THEN Append(acc, cur)
  ELSE IF path[i] = "/" THEN SplitFrom(path, i + 1, << >>, Append(acc, cur))
       ELSE SplitFrom(path, i + 1, Append(cur, path[i]), acc)

Split(path) == SplitFrom(path, 1, << >>, << >>)

\* The string a segment spells, as a dictionary key: the name itself for a
\* single name; "" for the empty segment and for a run of several names,
\* neither of which is the name of any module or instance.
Key(seg) == IF Len(seg) = 1 THEN seg[1] ELSE ""

\* InstanceTarget as it would be if the walk continued from the name of the
\* instance's module instead of the module it is bound to.
InstanceTargetByName(h, current, seg) ==
  IF Key(seg) \in DOMAIN h.objs[current.id].instances
  THEN LET r == h.objs[current.id].instances[Key(seg)].module
       IN IF r.k = "module" THEN StrRef(h.objs[r.id].name) ELSE r
  ELSE NoneRef

\* InstanceTarget as it would be with `current.instances[segment].module`:
\* a name the module has no instance for raises KeyError.
InstanceTargetSubscript(h, current, seg) ==
  IF Key(seg) \in DOMAIN h.objs[current.id].instances
  THEN h.objs[current.id].instances[Key(seg)].module
  ELSE [k |-> "raised", n |-> "KeyError", id |-> 0]

\* One iteration on a VerilogModule: the target of the instance named by
\* the segment, None when the module has no such instance.
InstanceTarget(h, current, seg) ==
  IF Key(seg) \in DOMAIN h.objs[current.id].instances
  THEN h.objs[current.id].instances[Key(seg)].module
  ELSE NoneRef

\* Walk as it would be if a macro or a type name met before the last segment
\* were treated like any other node without instances.
RECURSIVE WalkOnlyThroughModules(_, _, _, _)
WalkOnlyThroughModules(h, segments, i, current) ==
  IF i > Len(segments) THEN current
  ELSE IF current.k = "module"
       THEN WalkOnlyThroughModules(h, segments, i + 1,
                                   InstanceTarget(h, current, segments[i]))
       ELSE NoneRef

RECURSIVE Walk(_, _, _, _)
Walk(h, segments, i, current) ==
  IF i > Len(segments) THEN current
  ELSE CASE current.k = "module" ->
              Walk(h, segments, i + 1, InstanceTarget(h, current, segments[i]))
         [] current.k \in {"macro", "str"} -> current
         [] OTHER -> NoneRef

\* VerilogModuleHierarchy.get_module_by_path
get_module_by_path(h, path) ==
  LET segments == Split(path)
  IN Walk(h, segments, 2, get_module_by_name(h, Key(segments[1])))

----------------------------------------------------------------------------
(* TechMetalLayer *)

\* Lengths are integers: multiples of the resolution the decimal inputs are
\* written in, on which Decimal addition and remainder are exact.

\* Decimal's remainder takes the sign of the dividend.
DecimalRem(a, p) == IF a >= 0 THEN a % p ELSE 0 - ((0 - a) % p)

\* check_alignment as it would be if only the low edge were tested.
CheckAlignmentLowEdgeOnly(layer, x, y, width, height) ==
  CASE layer.dir = "Horizontal" -> IF DecimalRem(x, layer.pitch) = 0 THEN "True" ELSE "False"
    [] layer.dir = "Vertical"   -> IF DecimalRem(y, layer.pitch) = 0 THEN "True" ELSE "False"
    [] OTHER                    -> "None"

\* check_alignment as it would be with the two axes exchanged.
CheckAlignmentAxesSwapped(layer, x, y, width, height) ==
  LET bb_xmax == x + width
      bb_ymax == y + height
  IN CASE layer.dir = "Vertical" ->
            IF DecimalRem(x, layer.pitch) = 0 /\ DecimalRem(bb_xmax, layer.pitch) = 0
            THEN "True" ELSE "False"
       [] layer.dir = "Horizontal" ->
            IF DecimalRem(y, layer.pitch) = 0 /\ DecimalRem(bb_ymax, layer.pitch) = 0
            THEN "True" ELSE "False"
       [] OTHER -> "None"

\* TechMetalLayer.check_alignment: "True" or "False" for a horizontal or a
\* vertical layer, "None" (the function falls off its end) for any other
\* routing direction.
check_alignment(layer, x, y, width, height) ==
  LET bb_xmax == x + width
      bb_ymax == y + height
  IN CASE layer.dir = "Horizontal" ->
            IF DecimalRem(x, layer.pitch) = 0 /\ DecimalRem(bb_xmax, layer.pitch) = 0
            THEN "True" ELSE "False"
       [] layer.dir = "Vertical" ->
            IF DecimalRem(y, layer.pitch) = 0 /\ DecimalRem(bb_ymax, layer.pitch) = 0
            THEN "True" ELSE "False"
       [] OTHER -> "None"

Metal(name, dir, pitch) == [name |-> name, dir |-> dir, pitch |-> pitch]

\* TechMetalLayer.__init__
TechMetalLayer(metal) == [name |-> metal.name, dir |-> metal.direction, pitch |-> metal.pitch]

\* The stackup lists a technology can carry (driver.tech.config.stackups).
StackupNames == {"none", "two_layer", "two_stackups"}

HMetal(name, dir, pitch) == [name |-> name, direction |-> dir, pitch |-> pitch]

Stackups(s) ==
  CASE s = "two_layer" ->
         << << HMetal("M1", "Horizontal", 2), HMetal("M2", "Vertical", 3) >> >>
    [] s = "two_stackups" ->
         << << HMetal("M1", "Horizontal", 2) >>,
            << HMetal("M1", "Vertical", 2), HMetal("RDL", "Redistribution", 1) >> >>
    [] OTHER -> << >>

\* TechMetalLayer.create_from_stackups: one layer per metal name, a later
\* metal of the same name replacing an earlier one.
RECURSIVE LayersOfMetals(_, _, _)
LayersOfMetals(acc, metals, k) ==
  IF k > Len(metals) THEN acc
  ELSE LayersOfMetals((metals[k].name :> TechMetalLayer(metals[k])) @@ acc, metals, k + 1)

RECURSIVE LayersOfStackups(_, _, _)
LayersOfStackups(acc, stackups, i) ==
  IF i > Len(stackups) THEN acc
  ELSE LayersOfStackups(LayersOfMetals(acc, stackups[i], 1), stackups, i + 1)

create_from_stackups(stackups) == LayersOfStackups(<< >>, stackups, 1)

----------------------------------------------------------------------------
(* Placement constraints *)

\* A field of a constraint record: present with a value, or absent.
Some(v) == [set |-> TRUE,  val |-> v]
Absent  == [set |-> FALSE, val |-> 0]

\* yml.get(key) or 0, for a numeric field
OrZero(f) == IF f.set THEN f.val ELSE 0

Yml(type, path, x, y, width, height, master) ==
  [type |-> type, path |-> path, x |-> x, y |-> y, width |-> width, height |-> height,
   master |-> master]

\* The already-parsed records of vlsi.inputs.placement_constraints; master
\* is "" where the record has none.
RecordNames == {"hm", "hm_dims", "hm_deep", "top", "top_b", "hier", "hier_macro", "obs",
                "ovl", "bogus", "orphan"}

Record(r) ==
  CASE r = "hm"      -> Yml("hardmacro", <<"top", "/", "inst0">>, Some(2), Some(3), Absent, Absent, "")
    [] r = "hm_dims" -> Yml("hardmacro", <<"top", "/", "inst0">>, Some(0), Some(0), Some(5), Some(7), "")
    [] r = "hm_deep" -> Yml("hardmacro", <<"top", "/", "u1", "/", "inst0">>, Some(4), Some(0), Absent, Absent, "")
    [] r = "top"     -> Yml("toplevel", <<"top">>, Some(0), Some(0), Some(6), Some(6), "")
    [] r = "top_b"   -> Yml("toplevel", <<"top">>, Some(0), Some(0), Some(8), Some(9), "")
    [] r = "hier"    -> Yml("hierarchical", <<"top", "/", "u1">>, Some(2), Some(3), Some(4), Some(3), "mid")
    [] r = "hier_macro" -> Yml("hierarchical", <<"top", "/", "inst0">>, Some(1), Some(0), Some(2), Some(2), "foo_macro")
    [] r = "obs"     -> Yml("obstruction", <<"top", "/", "u1">>, Some(1), Some(3), Some(2), Some(3), "")
    [] r = "ovl"     -> Yml("overlap", <<"mid", "/", "leaf">>, Absent, Absent, Some(4), Some(6), "")
    [] r = "bogus"   -> Yml("bogus", <<"top">>, Some(0), Some(0), Some(1), Some(1), "")
    [] OTHER         -> Yml("toplevel", <<"ghost">>, Some(0), Some(0), Some(2), Some(2), "")

\* The record lists a call can be given.
Batches ==
  { << "hm", "hm_dims" >>, << "hm_deep", "ovl" >>, << "top", "hier", "obs", "top_b" >>,
    << "obs", "hier_macro", "obs" >>, << "top", "bogus", "hm" >>,
    << "ovl", "orphan", "top" >> }

\* The physical size of each macro a LEF library can supply
\* (macro.c_size_x, macro.c_size_y).
MacroSize(n) ==
  CASE n = "foo_macro" -> [c_size_x |-> 4, c_size_y |-> 6]
    [] OTHER           -> [c_size_x |-> 3, c_size_y |-> 3]

\* PlacementConstraintManager.PLACEMENT_CONSTRAINT_TYPES.get(yml_type)
ConstraintClass(type) ==
  CASE type = "hierarchical" -> "ModuleHierarchical"
    [] type = "toplevel"     -> "ModuleTopLevel"
    [] type = "obstruction"  -> "ModuleObstruction"
    [] type = "hardmacro"    -> "ModuleHardMacro"
    [] type = "overlap"      -> "ModuleOverlap"
    [] OTHER                 -> "None"

\* ModuleConstraint as it would be if the owner were looked up under the
\* last segment of the path.
ModuleConstraintOwnedByLast(cls, yml, h) ==
  [cls |-> cls,
   module |-> get_module_by_name(h, Key(Split(yml.path)[Len(Split(yml.path))])),
   owners |-> << get_module_by_name(h, Key(Split(yml.path)[Len(Split(yml.path))])) >>,
   path |-> yml.path, type |-> yml.type,
   x |-> OrZero(yml.x), y |-> OrZero(yml.y),
   width |-> OrZero(yml.width), height |-> OrZero(yml.height),
   master |-> "", master_module |-> NoneRef,
   is_grid_aligned |-> "UNKNOWN", misaligned_layers |-> {}]

\* ModuleConstraint.__init__: the owner is the module named by the path's
\* first segment (None when there is none); the numeric attributes end up
\* as `yml.get(name) or 0`.
ModuleConstraint(cls, yml, h) ==
  [cls |-> cls,
   module |-> get_module_by_name(h, Key(Split(yml.path)[1])),
   owners |-> << get_module_by_name(h, Key(Split(yml.path)[1])) >>,
   path |-> yml.path, type |-> yml.type,
   x |-> OrZero(yml.x), y |-> OrZero(yml.y),
   width |-> OrZero(yml.width), height |-> OrZero(yml.height),
   master |-> "", master_module |-> NoneRef,
   is_grid_aligned |-> "UNKNOWN", misaligned_layers |-> {}]

\* ModuleHierarchical.__init__: the master by name, from the module map.
ModuleHierarchical(yml, h) ==
  [ModuleConstraint("ModuleHierarchical", yml, h) EXCEPT
     !.master = yml.master,
     !.master_module = get_module_by_name(h, yml.master)]

\* ModuleHardMacro.__init__: the node the path leads to; when that is a bare
\* type name, the macro of that name (None when the library has none).
ModuleHardMacro(yml, h, lib) ==
  LET found == get_module_by_path(h, yml.path)
  IN [ModuleConstraint("ModuleHardMacro", yml, h) EXCEPT
        !.master_module = IF found.k = "str" THEN get_macro(lib, found.n) ELSE found]

\* PlacementConstraintManager.deserialize: calling the None that an
\* unregistered type tag yields raises TypeError.
deserialize(yml, h, lib) ==
  LET cls == ConstraintClass(yml.type)
  IN CASE cls = "None" -> [err |-> "TypeError", obj |-> << >>]
       [] cls = "ModuleHierarchical" -> [err |-> "", obj |-> ModuleHierarchical(yml, h)]
       [] cls = "ModuleHardMacro"    -> [err |-> "", obj |-> ModuleHardMacro(yml, h, lib)]
       [] OTHER -> [err |-> "", obj |-> ModuleConstraint(cls, yml, h)]

\* add_constraint, line 75: constraint.module = self
SetOwner(constraint, mid) ==
  [constraint EXCEPT !.module = ModRef(mid), !.owners = Append(@, ModRef(mid))]

\* The statements of add_constraint, as another thread can see them apart:
\* the owner and the path map entry,
StepMapConstraint(m, cid, constraint) ==
  [m EXCEPT !.constraints = (constraint.path :> cid) @@ @]

\* the index entry and the append to the ordered list,
StepListConstraint(m, cid) ==
  [m EXCEPT !.constraints_indices = (cid :> Len(m.constraints_list)) @@ @,
            !.constraints_list = Append(@, cid)]

\* the top-level slot and the hierarchical children.
StepKindConstraint(m, cid, constraint) ==
  [m EXCEPT !.top_constraint = IF constraint.cls = "ModuleTopLevel" THEN cid ELSE @,
            !.children = IF constraint.cls = "ModuleHierarchical" THEN Append(@, cid) ELSE @]

\* add_constraint as it would be if the index entry were not written.
AddConstraintUnindexed(m, cid, constraint) ==
  [m EXCEPT
     !.constraints = (constraint.path :> cid) @@ @,
     !.constraints_list = Append(@, cid),
     !.top_constraint = IF constraint.cls = "ModuleTopLevel" THEN cid ELSE @,
     !.children = IF constraint.cls = "ModuleHierarchical" THEN Append(@, cid) ELSE @]

\* add_constraint as it would be if the first top-level constraint kept the
\* slot.
AddConstraintKeepingTop(m, cid, constraint) ==
  [m EXCEPT
     !.constraints = (constraint.path :> cid) @@ @,
     !.constraints_indices = (cid :> Len(m.constraints_list)) @@ @,
     !.constraints_list = Append(@, cid),
     !.top_constraint = IF constraint.cls = "ModuleTopLevel" /\ @ = 0 THEN cid ELSE @,
     !.children = IF constraint.cls = "ModuleHierarchical" THEN Append(@, cid) ELSE @]

\* add_constraint as it would be if a constraint at a path already present
\* took the place of the earlier one in the ordered list as well.
AddConstraintReplacing(m, cid, constraint) ==
  IF constraint.path \in DOMAIN m.constraints
  THEN LET old == m.constraints[constraint.path]
       IN [m EXCEPT
             !.constraints = (constraint.path :> cid) @@ @,
             !.constraints_indices = (cid :> m.constraints_indices[old]) @@ @,
             !.constraints_list = [k \in DOMAIN @ |-> IF @[k] = old THEN cid ELSE @[k]],
             !.top_constraint = IF constraint.cls = "ModuleTopLevel" THEN cid ELSE @,
             !.children = IF constraint.cls = "ModuleHierarchical" THEN Append(@, cid) ELSE @]
  ELSE [m EXCEPT
          !.constraints = (constraint.path :> cid) @@ @,
          !.constraints_indices = (cid :> Len(m.constraints_list)) @@ @,
          !.constraints_list = Append(@, cid),
          !.top_constraint = IF constraint.cls = "ModuleTopLevel" THEN cid ELSE @,
          !.children = IF constraint.cls = "ModuleHierarchical" THEN Append(@, cid) ELSE @]

\* VerilogModule.add_constraint, on module object m with the constraint
\* stored at index cid.
add_constraint(m, cid, constraint) ==
  [m EXCEPT
     !.constraints = (constraint.path :> cid) @@ @,
     !.constraints_indices = (cid :> Len(m.constraints_list)) @@ @,
     !.constraints_list = Append(@, cid),
     !.top_constraint = IF constraint.cls = "ModuleTopLevel" THEN cid ELSE @,
     !.children = IF constraint.cls = "ModuleHierarchical" THEN Append(@, cid) ELSE @]

\* AttachAll as it would be if a failing record were skipped and the loop
\* went on with the records after it.
RECURSIVE AttachAllSkippingFailed(_, _, _, _, _)
AttachAllSkippingFailed(st, h, lib, batch, i) ==
  IF i > Len(batch) THEN IF st.err = "" THEN [st EXCEPT !.done = Len(batch)] ELSE st
  ELSE LET d == deserialize(Record(batch[i]), h, lib)
           failed == IF d.err # "" THEN d.err
                     ELSE IF d.obj.module.k = "none" THEN "AttributeError" ELSE ""
       IN IF failed # ""
          THEN AttachAllSkippingFailed(
                 IF st.err = "" THEN [st EXCEPT !.err = failed, !.done = i - 1] ELSE st,
                 h, lib, batch, i + 1)
          ELSE LET cid == Len(st.cons) + 1
                   mid == d.obj.module.id
               IN AttachAllSkippingFailed(
                    [st EXCEPT !.cons = Append(@, SetOwner(d.obj, mid)),
                               !.objs[mid] = add_constraint(@, cid, d.obj)],
                    h, lib, batch, i + 1)

\* AttachAll as it would be if a constraint without an owner were passed
\* over without an error.
RECURSIVE AttachAllIgnoringOrphans(_, _, _, _, _)
AttachAllIgnoringOrphans(st, h, lib, batch, i) ==
  IF i > Len(batch) THEN [st EXCEPT !.err = "", !.done = Len(batch)]
  ELSE LET d == deserialize(Record(batch[i]), h, lib)
       IN IF d.err # "" THEN [st EXCEPT !.err = d.err, !.done = i - 1]
          ELSE IF d.obj.module.k = "none"
               THEN AttachAllIgnoringOrphans(st, h, lib, batch, i + 1)
               ELSE LET cid == Len(st.cons) + 1
                        mid == d.obj.module.id
                    IN AttachAllIgnoringOrphans(
                         [st EXCEPT !.cons = Append(@, SetOwner(d.obj, mid)),
                                    !.objs[mid] = add_constraint(@, cid, d.obj)],
                         h, lib, batch, i + 1)

\* The loop of register_constraints_in_driver over the records: the first
\* exception leaves the loop; a constraint whose owner is None fails on
\* `constraint_obj.module.add_constraint` with AttributeError.
RECURSIVE AttachAll(_, _, _, _, _)
AttachAll(st, h, lib, batch, i) ==
  IF i > Len(batch) THEN [st EXCEPT !.err = "", !.done = Len(batch)]
  ELSE LET d == deserialize(Record(batch[i]), h, lib)
       IN IF d.err # "" THEN [st EXCEPT !.err = d.err, !.done = i - 1]
          ELSE IF d.obj.module.k = "none"
               THEN [st EXCEPT !.err = "AttributeError", !.done = i - 1]
               ELSE LET cid == Len(st.cons) + 1
                        mid == d.obj.module.id
                    IN AttachAll(
                         [st EXCEPT !.cons = Append(@, SetOwner(d.obj, mid)),
                                    !.objs[mid] = add_constraint(@, cid, d.obj)],
                         h, lib, batch, i + 1)

\* ModuleHardMacro.render: the rectangle's width and height.
RenderHardMacro(c) ==
  LET explicit == c.width # 0 /\ c.height # 0
      w0 == IF explicit THEN c.width ELSE 0
      h0 == IF explicit THEN c.height ELSE 0
      bound == c.master_module.k = "macro"
  IN [width  |-> IF bound THEN MacroSize(c.master_module.n).c_size_x ELSE w0,
      height |-> IF bound THEN MacroSize(c.master_module.n).c_size_x ELSE h0]

\* refresh_alignment of one constraint against the layers attached: UNKNOWN
\* without layers; otherwise the layers whose requirement the box violates
\* are the failing ones, and the verdict is ALIGNED when there is none.
refresh_alignment(c, lays) ==
  LET failing == { n \in DOMAIN lays :
                     check_alignment(lays[n], c.x, c.y, c.width, c.height) = "False" }
  IN IF DOMAIN lays = {} THEN [c EXCEPT !.is_grid_aligned = "UNKNOWN", !.misaligned_layers = {}]
     ELSE IF failing = {} THEN [c EXCEPT !.is_grid_aligned = "ALIGNED", !.misaligned_layers = {}]
     ELSE [c EXCEPT !.is_grid_aligned = "MISALIGNED", !.misaligned_layers = failing]

----------------------------------------------------------------------------
(* Operations *)

Op(kind, arg) == [kind |-> kind, arg |-> arg]

\* The constraint side before any constraint file is read.
NoConstraints ==
  /\ cons = << >>
  /\ layers = << >>
  /\ rendered = [cid |-> 0, width |-> 0, height |-> 0, rect |-> FALSE]
  /\ last_reg = [n |-> 0, batch |-> << >>, err |-> "", done |-> 0, had |-> 0,
                 before |-> << >>]
  /\ checked = << >>

\* No path lookup made.
NoLookup == [path |-> << >>, result |-> [k |-> "idle", n |-> "", id |-> 0]]

\* The loading thread before it is started: its program counter, its file
\* list and record list, the file, module, instance and record it is at, the
\* (module, body) tuples found, and the exception that ended it.
BgOff == [pc |-> "off", files |-> << >>, batch |-> << >>, fi |-> 0, found |-> << >>,
          mi |-> 0, ii |-> 0, ri |-> 0, err |-> ""]

\* Nothing read yet from the other thread.
NothingSeen == [n |-> 0, pending |-> {}, index |-> NoPending, mapped |-> << >>,
                listed |-> << >>]

\* No background thread started, nothing read from another thread.
NoThread ==
  /\ looked = NoLookup
  /\ bg = BgOff
  /\ seen = NothingSeen

\* No check_alignment call in progress.
NoCall == [layer |-> Metal("", "", 0), x |-> 0, y |-> 0, width |-> 0, height |-> 0,
           result |-> "idle"]

\* The module graph by names: for every registered name, for every instance
\* name, the resolution state and the name of its target.
GraphOf(h) ==
  [n \in DOMAIN h.modules |->
     [iname \in DOMAIN h.objs[h.modules[n]].instances |->
        LET ref == h.objs[h.modules[n]].instances[iname].module
        IN [state |-> ref.k,
            target |-> IF ref.k = "module" THEN h.objs[ref.id].name ELSE ref.n]]]

\* What is recorded of a load: its file list, the macro library it ran with,
\* the first object id it allocated, the exception that ended it ("" for
\* none), the module graph it left, and whether it repeats the load before
\* it (same files, same macro library).
LoadRecord(files, lib, base, r) ==
  [files |-> files, macros |-> lib, base |-> base, err |-> r.err,
   graph |-> GraphOf(r.h),
   rerun |-> loads >= 1 /\ files = last_load.files /\ lib = last_load.macros]

Init ==
  /\ modules = << >>
  /\ objs = << >>
  /\ macro_library = {}
  /\ unknown_macros = NoPending
  /\ top_level = 0
  /\ next_id = 1
  /\ loads = 0
  /\ last_load = [files |-> << >>, macros |-> {}, base |-> 0, err |-> "", rerun |-> FALSE,
                  graph |-> << >>]
  /\ last_op = Op("init", 0)
  /\ NoConstraints
  /\ align = NoCall
  /\ NoThread

Install(r) ==
  /\ modules' = r.h.modules
  /\ objs' = r.h.objs
  /\ unknown_macros' = r.h.unknown_macros
  /\ next_id' = r.h.next_id

\* register_modules_from_driver(driver, statusbar)
LoadFromDriver(files) ==
  /\ loads < MaxLoads
  /\ LET r == RegisterModules(Hier, macro_library, files)
     IN /\ Install(r)
        /\ last_load' = LoadRecord(files, macro_library, next_id, r)
  /\ last_op' = Op("load", 0)
  /\ loads' = loads + 1
  /\ UNCHANGED <<macro_library, top_level, cvars, align, tvars>>

\* register_modules_from_directory(directory, statusbar): the files in the
\* order the directory walk yields them.
LoadFromDirectory(files) ==
  /\ loads < MaxLoads
  /\ LET r == RegisterModules(Hier, macro_library, files)
     IN /\ Install(r)
        /\ last_load' = LoadRecord(files, macro_library, next_id, r)
  /\ last_op' = Op("load", 0)
  /\ loads' = loads + 1
  /\ UNCHANGED <<macro_library, top_level, cvars, align, tvars>>

\* parse_module_instances called again for a registered module, with the
\* (module, body) tuple of its definition.
Reparse(mid) ==
  /\ mid \in DOMAIN objs
  /\ objs[mid].name \in DOMAIN modules
  /\ modules[objs[mid].name] = mid
  /\ LET h == parse_module_instances(Hier, macro_library, mid)
     IN Install([h |-> h])
  /\ last_op' = Op("reparse", mid)
  /\ UNCHANGED <<macro_library, top_level, loads, last_load, cvars, align, tvars>>

\* macro_library.add_by_path / add_lazy_by_path: a macro becomes available.
AddMacro(n) ==
  /\ n \notin macro_library
  /\ macro_library' = macro_library \cup {n}
  /\ last_op' = Op("add_macro", 0)
  /\ UNCHANGED <<modules, objs, unknown_macros, top_level, next_id, loads, last_load,
                 cvars, align, tvars>>

\* MainWindow.load_yamls: the module named by vlsi.inputs.top_module, None
\* when no such module is registered, handed to set_top_level_module.
SetTopLevel(n) ==
  /\ LET m == get_module_by_name(Hier, n)
     IN /\ top_level' = m.id
        /\ top_level' # top_level
  /\ last_op' = Op("set_top", 0)
  /\ UNCHANGED <<modules, objs, macro_library, unknown_macros, next_id, loads, last_load,
                 cvars, align, tvars>>

Next ==
  \/ \E files \in FileLists : LoadFromDriver(files)
  \/ \E files \in FileLists : LoadFromDirectory(files)
  \/ \E mid \in 1..(next_id - 1) : Reparse(mid)
  \/ \E n \in MacroNames : AddMacro(n)
  \/ \E n \in TopModuleNames : SetTopLevel(n)

Spec == Init /\ [][Next]_vars

----------------------------------------------------------------------------
(* Constraint registration, rendering and alignment refresh *)

\* The design the constraint files refer to, as a load leaves it.
DesignFiles == << "soc.sv", "leaf.sv" >>

EmptyHier == [modules |-> << >>, objs |-> << >>, unknown_macros |-> NoPending, next_id |-> 1]

InitC ==
  /\ \E lib \in SUBSET MacroNames :
       LET r == RegisterModules(EmptyHier, lib, DesignFiles)
       IN /\ macro_library = lib
          /\ modules = r.h.modules
          /\ objs = r.h.objs
          /\ unknown_macros = r.h.unknown_macros
          /\ next_id = r.h.next_id
          /\ last_load = [files |-> DesignFiles, macros |-> lib, base |-> 1, err |-> r.err,
                          rerun |-> FALSE, graph |-> GraphOf(r.h)]
  /\ top_level = 0
  /\ loads = 1
  /\ last_op = Op("load", 0)
  /\ NoConstraints
  /\ align = NoCall
  /\ NoThread

Unchecked == [n |-> 0, verdict |-> "UNKNOWN", failing |-> {}]

\* register_constraints_in_driver(driver, statusbar): the layers of the
\* technology's stackups replace the registry's, then the records are
\* deserialized and attached in order.  `had` keeps the number of
\* constraints there were, `before` every module's constraint list as the
\* records ahead of a failing one left it.
RegisterConstraints(s, batch) ==
  /\ last_reg.n < MaxRegisters
  /\ layers' = create_from_stackups(Stackups(s))
  /\ LET st0 == [cons |-> cons, objs |-> objs, err |-> "", done |-> 0]
         r == AttachAll(st0, Hier, macro_library, batch, 1)
         ahead == AttachAll(st0, Hier, macro_library, SubSeq(batch, 1, r.done), 1)
     IN /\ cons' = r.cons
        /\ objs' = r.objs
        /\ last_reg' = [n |-> last_reg.n + 1, batch |-> batch, err |-> r.err, done |-> r.done,
                        had |-> Len(cons),
                        before |-> [m \in DOMAIN objs |-> ahead.objs[m].constraints_list]]
        /\ checked' = [cid \in 1..Len(r.cons) |-> Unchecked]
  /\ UNCHANGED <<hvars, last_op, rendered, align, tvars>>

\* ModuleHardMacro.render of constraint cid.
RenderConstraint(cid) ==
  /\ cons[cid].cls = "ModuleHardMacro"
  /\ LET d == RenderHardMacro(cons[cid])
     IN rendered' = [cid |-> cid, width |-> d.width, height |-> d.height,
                     rect |-> d.width # 0 /\ d.height # 0]
  /\ UNCHANGED <<hvars, objs, last_op, cons, layers, last_reg, checked, align, tvars>>

\* VerilogModuleConstraintsModel(module): refresh_alignment() on every
\* constraint of the module's constraint list.
RefreshModule(mid) ==
  /\ objs[mid].constraints_list # << >>
  /\ \A k \in DOMAIN objs[mid].constraints_list :
       checked[objs[mid].constraints_list[k]].n < MaxChecks
  /\ LET mine == { objs[mid].constraints_list[k] : k \in DOMAIN objs[mid].constraints_list }
         Fresh(cid) == refresh_alignment(cons[cid], layers)
     IN /\ cons' = [cid \in DOMAIN cons |-> IF cid \in mine THEN Fresh(cid) ELSE cons[cid]]
        /\ checked' = [cid \in DOMAIN checked |->
                         IF cid \notin mine THEN checked[cid]
                         ELSE IF checked[cid].n = 0
                              THEN [n |-> 1, verdict |-> Fresh(cid).is_grid_aligned,
                                    failing |-> Fresh(cid).misaligned_layers]
                              ELSE [checked[cid] EXCEPT !.n = @ + 1]]
  /\ UNCHANGED <<hvars, objs, last_op, layers, rendered, last_reg, align, tvars>>

NextC ==
  \/ \E s \in StackupNames, batch \in Batches : RegisterConstraints(s, batch)
  \/ \E n \in MacroNames : AddMacro(n)
  \/ \E cid \in 1..Len(cons) : RenderConstraint(cid)
  \/ \E mid \in DOMAIN objs : RefreshModule(mid)

SpecC == InitC /\ [][NextC]_vars

----------------------------------------------------------------------------
(* check_alignment on its own *)

Directions == {"Horizontal", "Vertical", "Redistribution"}

InitAlign ==
  /\ modules = << >>
  /\ objs = << >>
  /\ macro_library = {}
  /\ unknown_macros = NoPending
  /\ top_level = 0
  /\ next_id = 1
  /\ loads = 0
  /\ last_load = [files |-> << >>, macros |-> {}, base |-> 0, err |-> "", rerun |-> FALSE,
                  graph |-> << >>]
  /\ last_op = Op("init", 0)
  /\ NoConstraints
  /\ NoThread
  /\ \E dir \in Directions, pitch \in 1..MaxPitch,
        x \in (0 - MaxCoord)..MaxCoord, y \in (0 - MaxCoord)..MaxCoord,
        width \in 0..(MaxPitch + MaxPitch), height \in 0..MaxPitch :
       align = [layer |-> Metal("M", dir, pitch), x |-> x, y |-> y,
                width |-> width, height |-> height, result |-> "pending"]

\* layer.check_alignment(x, y, width, height)
CheckAlignment ==
  /\ align.result = "pending"
  /\ align' = [align EXCEPT
                 !.result = check_alignment(align.layer, align.x, align.y,
                                            align.width, align.height)]
  /\ UNCHANGED <<hvars, objs, last_op, cvars, tvars>>

NextAlign == CheckAlignment

SpecAlign == InitAlign /\ [][NextAlign]_vars

----------------------------------------------------------------------------
(* get_module_by_path on its own *)

\* The characters of a path: the separator and names (of modules and of
\* instances, which also stand for names nothing bears).
PathTokens == {"/", "top", "mid", "inst0", "u1"}

\* Every path of at most MaxPathLen tokens, the empty string included.
Paths == UNION { [1..n -> PathTokens] : n \in 0..MaxPathLen }

\* The designs a lookup is made in.
PathDesigns == { << "soc.sv", "leaf.sv" >>, << "top.sv", "leaf.sv" >>, << "soc.sv" >> }

InitPath ==
  /\ \E lib \in SUBSET MacroNames, files \in PathDesigns :
       LET r == RegisterModules(EmptyHier, lib, files)
       IN /\ macro_library = lib
          /\ modules = r.h.modules
          /\ objs = r.h.objs
          /\ unknown_macros = r.h.unknown_macros
          /\ next_id = r.h.next_id
          /\ last_load = [files |-> files, macros |-> lib, base |-> 1, err |-> r.err,
                          rerun |-> FALSE, graph |-> GraphOf(r.h)]
  /\ top_level = 0
  /\ loads = 1
  /\ last_op = Op("load", 0)
  /\ NoConstraints
  /\ align = NoCall
  /\ NoThread

\* hierarchy.get_module_by_path(path)
LookupPath(path) ==
  /\ looked' = [path |-> path, result |-> get_module_by_path(Hier, path)]
  /\ UNCHANGED <<hvars, objs, last_op, cvars, align, bg, seen>>

\* One lookup in each behaviour.
NextPath ==
  /\ looked.result.k = "idle"
  /\ \E path \in Paths : LookupPath(path)

SpecPath == InitPath /\ [][NextPath]_vars

----------------------------------------------------------------------------
(* The load on a background thread, statement by statement, and a reader *)

\* The designs and the constraint lists the thread is started with.
ThreadDesigns == { << "soc.sv", "leaf.sv" >>, << "top.sv", "leaf.sv" >>,
                   << "top.sv", "missing.sv", "leaf.sv" >> }

InitThread ==
  /\ modules = << >>
  /\ objs = << >>
  /\ \E lib \in SUBSET MacroNames : macro_library = lib
  /\ unknown_macros = NoPending
  /\ top_level = 0
  /\ next_id = 1
  /\ loads = 0
  /\ last_load = [files |-> << >>, macros |-> {}, base |-> 0, err |-> "", rerun |-> FALSE,
                  graph |-> << >>]
  /\ last_op = Op("init", 0)
  /\ NoConstraints
  /\ align = NoCall
  /\ NoThread

\* What the thread leaves alone at every step.
ThreadFrame == UNCHANGED <<macro_library, top_level, loads, last_load, last_op,
                           rendered, last_reg, checked, align, looked, seen>>

\* Thread(target=load, args=(driver,)).start()
StartThread(files, batch) ==
  /\ bg.pc = "off"
  /\ bg' = [BgOff EXCEPT !.pc = "scan", !.files = files, !.batch = batch, !.fi = 1]
  /\ UNCHANGED <<modules, objs, unknown_macros, next_id, cons, layers>>
  /\ ThreadFrame

\* The discovery loop, one file at a step: the modules of the file are
\* registered; an unreadable file ends the thread with the exception.
ScanFile ==
  /\ bg.pc = "scan"
  /\ bg.fi <= Len(bg.files)
  /\ IF bg.files[bg.fi] \in Unreadable
     THEN /\ bg' = [bg EXCEPT !.pc = "failed", !.err = "OSError"]
          /\ UNCHANGED <<modules, objs, next_id>>
     ELSE LET mods == parse_verilog_file(bg.files[bg.fi], next_id)
              h == RegisterAll(Hier, mods, 1)
          IN /\ modules' = h.modules
             /\ objs' = h.objs
             /\ next_id' = h.next_id
             /\ bg' = [bg EXCEPT !.fi = @ + 1, !.found = @ \o mods]
  /\ UNCHANGED <<unknown_macros, cons, layers>>
  /\ ThreadFrame

\* The head of the resolution loop: the next (module, body) tuple, or on to
\* the constraints when there is none left.
NextFound ==
  /\ \/ bg.pc = "scan" /\ bg.fi > Len(bg.files)
     \/ bg.pc = "module"
  /\ LET mi == IF bg.pc = "scan" THEN 1 ELSE bg.mi
     IN bg' = IF mi > Len(bg.found) THEN [bg EXCEPT !.pc = "layers"]
              ELSE IF bg.found[mi].obj.body = << >>
                   THEN [bg EXCEPT !.pc = "module", !.mi = mi + 1]
                   ELSE [bg EXCEPT !.pc = "get", !.mi = mi, !.ii = 1]
  /\ UNCHANGED <<modules, objs, unknown_macros, next_id, cons, layers>>
  /\ ThreadFrame

ThreadModule   == bg.found[bg.mi].id
ThreadInstance == bg.found[bg.mi].obj.body[bg.ii]

\* parse_module_instances, lines 207-211
GetInstance ==
  /\ bg.pc = "get"
  /\ objs' = StepGetInstance(Hier, ThreadModule, ThreadInstance[1], ThreadInstance[2]).objs
  /\ bg' = [bg EXCEPT !.pc = "resolve"]
  /\ UNCHANGED <<modules, unknown_macros, next_id, cons, layers>>
  /\ ThreadFrame

\* parse_module_instances, lines 213-226
ResolveInstance ==
  /\ bg.pc = "resolve"
  /\ LET h == StepResolveInstance(Hier, macro_library, ThreadModule, ThreadInstance[2])
     IN /\ objs' = h.objs
        /\ unknown_macros' = h.unknown_macros
  /\ bg' = [bg EXCEPT !.pc = "log"]
  /\ UNCHANGED <<modules, next_id, cons, layers>>
  /\ ThreadFrame

\* parse_module_instances, lines 228-230, and the step to the next
\* instantiation of the body or to the next tuple.
LogInstance ==
  /\ bg.pc = "log"
  /\ unknown_macros' = StepLogInstance(Hier, ThreadModule, ThreadInstance[2]).unknown_macros
  /\ bg' = IF bg.ii < Len(bg.found[bg.mi].obj.body)
           THEN [bg EXCEPT !.pc = "get", !.ii = @ + 1]
           ELSE [bg EXCEPT !.pc = "module", !.mi = @ + 1]
  /\ UNCHANGED <<modules, objs, next_id, cons, layers>>
  /\ ThreadFrame

\* register_constraints_in_driver, line 363
SetLayers(s) ==
  /\ bg.pc = "layers"
  /\ layers' = create_from_stackups(Stackups(s))
  /\ bg' = [bg EXCEPT !.pc = "record", !.ri = 1]
  /\ UNCHANGED <<modules, objs, unknown_macros, next_id, cons>>
  /\ ThreadFrame

\* register_constraints_in_driver, line 371: the record is deserialized;
\* then `constraint_obj.module.add_constraint` is looked up.
Deserialize ==
  /\ bg.pc = "record"
  /\ IF bg.ri > Len(bg.batch)
     THEN /\ bg' = [bg EXCEPT !.pc = "done"]
          /\ UNCHANGED cons
     ELSE LET d == deserialize(Record(bg.batch[bg.ri]), Hier, macro_library)
          IN IF d.err # ""
             THEN /\ bg' = [bg EXCEPT !.pc = "failed", !.err = d.err]
                  /\ UNCHANGED cons
             ELSE IF d.obj.module.k = "none"
                  THEN /\ bg' = [bg EXCEPT !.pc = "failed", !.err = "AttributeError"]
                       /\ UNCHANGED cons
                  ELSE /\ bg' = [bg EXCEPT !.pc = "map"]
                       /\ cons' = Append(cons, d.obj)
  /\ UNCHANGED <<modules, objs, unknown_macros, next_id, layers>>
  /\ ThreadFrame

\* The constraint being attached and its owner.
ThreadConstraint == Len(cons)
ThreadOwner      == cons[Len(cons)].module.id

\* add_constraint, lines 75-76
MapConstraint ==
  /\ bg.pc = "map"
  /\ objs' = [objs EXCEPT ![ThreadOwner] =
                StepMapConstraint(@, ThreadConstraint, cons[ThreadConstraint])]
  /\ cons' = [cons EXCEPT ![ThreadConstraint] = SetOwner(@, ThreadOwner)]
  /\ bg' = [bg EXCEPT !.pc = "list"]
  /\ UNCHANGED <<modules, unknown_macros, next_id, layers>>
  /\ ThreadFrame

\* add_constraint, lines 77-78
ListConstraint ==
  /\ bg.pc = "list"
  /\ objs' = [objs EXCEPT ![ThreadOwner] = StepListConstraint(@, ThreadConstraint)]
  /\ bg' = [bg EXCEPT !.pc = "kind"]
  /\ UNCHANGED <<modules, unknown_macros, next_id, cons, layers>>
  /\ ThreadFrame

\* add_constraint, lines 79-82, and the step to the next record
KindConstraint ==
  /\ bg.pc = "kind"
  /\ objs' = [objs EXCEPT ![ThreadOwner] =
                StepKindConstraint(@, ThreadConstraint, cons[ThreadConstraint])]
  /\ bg' = [bg EXCEPT !.pc = "record", !.ri = @ + 1]
  /\ UNCHANGED <<modules, unknown_macros, next_id, cons, layers>>
  /\ ThreadFrame

\* Sequence to set
Range(q) == { q[k] : k \in DOMAIN q }

\* A read from the other thread while the load runs or after it: the
\* instances of the registered modules that are a bare type name, the
\* pending index, and every module's path map and ordered list.
Observe ==
  /\ bg.pc # "off"
  /\ seen' = [n |-> 1,
              pending |-> { inst \in (DOMAIN objs) \X InstNames :
                              /\ objs[inst[1]].name \in DOMAIN modules
                              /\ modules[objs[inst[1]].name] = inst[1]
                              /\ inst[2] \in DOMAIN objs[inst[1]].instances
                              /\ objs[inst[1]].instances[inst[2]].module.k = "str" },
              index |-> unknown_macros,
              mapped |-> [m \in DOMAIN objs |-> Range(objs[m].constraints)],
              listed |-> [m \in DOMAIN objs |-> Range(objs[m].constraints_list)]]
  /\ UNCHANGED <<hvars, objs, last_op, cvars, align, looked, bg>>

NextThread ==
  \/ \E files \in ThreadDesigns, batch \in Batches : StartThread(files, batch)
  \/ ScanFile
  \/ NextFound
  \/ GetInstance
  \/ ResolveInstance
  \/ LogInstance
  \/ \E s \in StackupNames : SetLayers(s)
  \/ Deserialize
  \/ MapConstraint
  \/ ListConstraint
  \/ KindConstraint
  \/ Observe

SpecThread == InitThread /\ [][NextThread]_vars

----------------------------------------------------------------------------
(* Vocabulary of the properties *)

\* The instance objects that exist: <<module id, instance name>>.
Instances == { <<mid, iname>> \in (DOMAIN objs) \X InstNames :
                 iname \in DOMAIN objs[mid].instances }

ModuleOf(inst) == objs[inst[1]].instances[inst[2]].module

Pending(inst)        == ModuleOf(inst).k = "str"
ResolvedModule(inst) == ModuleOf(inst).k = "module"
ResolvedMacro(inst)  == ModuleOf(inst).k = "macro"

\* The name an instance is bound to or waiting for.
TargetName(ref) == IF ref.k = "module" THEN objs[ref.id].name ELSE ref.n

InPendingIndex(inst) == \E key \in DOMAIN unknown_macros : inst \in unknown_macros[key]

Registered(mid) ==
  /\ mid \in DOMAIN objs
  /\ objs[mid].name \in DOMAIN modules
  /\ modules[objs[mid].name] = mid

GraphView == GraphOf(Hier)

\* A load that went through discovery and resolution without an exception.
LoadCompleted == last_op.kind = "load" /\ last_load.err = ""

TopLeafSources == { << "top.sv", "leaf.sv" >>, << "leaf.sv", "top.sv" >> }

FirstLoadOfTopLeaf == loads = 1 /\ LoadCompleted /\ last_load.files \in TopLeafSources

----------------------------------------------------------------------------
(* C1 *)

\* C1 as stated: after one load over sources defining top (instantiating
\* leaf inst0) and leaf, the module map is exactly {top, leaf} and
\* top.instances["inst0"] is bound to the Module registered under "leaf".
C1_AsStated ==
  FirstLoadOfTopLeaf =>
    /\ DOMAIN modules = {"top", "leaf"}
    /\ "inst0" \in DOMAIN objs[modules["top"]].instances
    /\ objs[modules["top"]].instances["inst0"].module = ModRef(modules["leaf"])

\* C1, amended: after that load the module map is exactly {top, leaf}; inst0
\* of top is bound to the Module registered under "leaf" provided the macro
\* library held no macro named "leaf" when the load ran, and to that macro
\* when it did.
C1_FirstLoadBindsLeaf ==
  FirstLoadOfTopLeaf =>
    /\ DOMAIN modules = {"top", "leaf"}
    /\ DOMAIN objs[modules["top"]].instances = {"inst0"}
    /\ objs[modules["top"]].instances["inst0"].module =
         IF "leaf" \in last_load.macros THEN MacroRef("leaf") ELSE ModRef(modules["leaf"])

C1_Witness ==
  /\ FirstLoadOfTopLeaf
  /\ "leaf" \notin last_load.macros
  /\ objs[modules["top"]].instances["inst0"].module = ModRef(modules["leaf"])
  /\ objs[modules["leaf"]].name = "leaf"

----------------------------------------------------------------------------
(* C2 *)

\* An instance whose type name is neither a registered module nor a macro is
\* Pending and is in the pending index.
UnmatchedStaysPending ==
  \A inst \in Instances :
    (TargetName(ModuleOf(inst)) \notin DOMAIN modules
       /\ TargetName(ModuleOf(inst)) \notin macro_library)
    => Pending(inst) /\ InPendingIndex(inst)

\* When resolution is run again on the module of a Pending instance whose
\* type name the macro library now has, the instance becomes Resolved(Macro)
\* and is in no set of the pending index.
RerunBindsMacro ==
  \A mid \in DOMAIN objs : \A iname \in DOMAIN objs[mid].instances :
    (/\ last_op' = Op("reparse", mid)
     /\ objs[mid].instances[iname].module.k = "str"
     /\ objs[mid].instances[iname].module.n \in macro_library)
    => /\ objs'[mid].instances[iname].module =
            MacroRef(objs[mid].instances[iname].module.n)
       /\ \A key \in DOMAIN unknown_macros' : <<mid, iname>> \notin unknown_macros'[key]

----------------------------------------------------------------------------
(* C3 *)

\* C3: a load that repeats the load before it (same file list, macro library
\* unchanged since), run on the graph that load left, leaves the module graph
\* identical: same module names, same instance names, same resolution state
\* and target name for every instance.
C3_ReloadIdempotent ==
  [][(/\ last_op'.kind = "load" /\ loads' = loads + 1
      /\ last_load'.rerun
      /\ GraphView = last_load.graph)
       => GraphView' = last_load.graph]_vars

C3_Witness ==
  /\ last_op.kind = "load"
  /\ last_load.rerun
  /\ last_load.err = ""
  /\ \E inst \in Instances : Registered(inst[1]) /\ ResolvedModule(inst)
  /\ \E inst \in Instances : Registered(inst[1]) /\ Pending(inst)

----------------------------------------------------------------------------
(* C4 *)

ThreeSegmentPath(a, b, c) == << a, "/", b, "/", c >>

\* a is a registered module, b an instance of a bound to a module, c an
\* instance of that module.
ValidPath(a, b, c) ==
  /\ a \in DOMAIN modules
  /\ b \in DOMAIN objs[modules[a]].instances
  /\ objs[modules[a]].instances[b].module.k = "module"
  /\ c \in DOMAIN objs[objs[modules[a]].instances[b].module.id].instances

\* Module a by name, then the target of instance b of a, then the target of
\* instance c of b's module.
ManualWalk(a, b, c) ==
  objs[objs[modules[a]].instances[b].module.id].instances[c].module

\* C4: for every valid path a/b/c, get_module_by_path returns the node the
\* manual walk reaches.
C4_PathMatchesManualWalk ==
  \A a \in ModuleNames, b \in InstNames, c \in InstNames :
    ValidPath(a, b, c)
      => get_module_by_path(Hier, ThreeSegmentPath(a, b, c)) = ManualWalk(a, b, c)

C4_Witness ==
  \E a \in ModuleNames, b \in InstNames, c \in InstNames :
    /\ ValidPath(a, b, c)
    /\ get_module_by_path(Hier, ThreeSegmentPath(a, b, c)).k = "module"
    /\ get_module_by_path(Hier, ThreeSegmentPath(a, b, c)) = ManualWalk(a, b, c)

----------------------------------------------------------------------------
(* C5 *)

RegisteredTypes == {"hierarchical", "toplevel", "obstruction", "hardmacro", "overlap"}

\* The latest registration stopped at a record, and that record's type tag
\* is not a registered one.
StoppedAtUnregisteredType ==
  /\ last_reg.n >= 1
  /\ last_reg.done < Len(last_reg.batch)
  /\ Record(last_reg.batch[last_reg.done + 1]).type \notin RegisteredTypes

StoppedRecord == Record(last_reg.batch[last_reg.done + 1])

\* C5: a record with an unregistered type tag fails with
\* UnknownConstraintType, no constraint object comes of it, and the
\* constraint list of the module its path names is as it was.
C5_AsStated ==
  StoppedAtUnregisteredType =>
    /\ last_reg.err = "UnknownConstraintType"
    /\ Len(cons) = last_reg.had + last_reg.done
    /\ LET owner == get_module_by_name(Hier, Key(Split(StoppedRecord.path)[1]))
       IN owner.k = "module" =>
            objs[owner.id].constraints_list = last_reg.before[owner.id]

----------------------------------------------------------------------------
(* C6 and C7 *)

\* A hard-macro constraint has been rendered, and it is bound to a macro.
RenderedBoundToMacro ==
  /\ rendered.cid # 0
  /\ cons[rendered.cid].cls = "ModuleHardMacro"
  /\ cons[rendered.cid].master_module.k = "macro"

Footprint == MacroSize(cons[rendered.cid].master_module.n)

\* C6: a hard-macro constraint with no width and no height of its own,
\* bound to a macro of size (W, H), is drawn W wide and H high.
C6_AsStated ==
  (/\ RenderedBoundToMacro
   /\ cons[rendered.cid].width = 0
   /\ cons[rendered.cid].height = 0)
    => /\ rendered.width = Footprint.c_size_x
       /\ rendered.height = Footprint.c_size_y

\* C7: a hard-macro constraint bound to a macro and carrying a width and a
\* height of its own is drawn with its own width and height.
C7_AsStated ==
  (/\ RenderedBoundToMacro
   /\ cons[rendered.cid].width # 0
   /\ cons[rendered.cid].height # 0)
    => /\ rendered.width = cons[rendered.cid].width
       /\ rendered.height = cons[rendered.cid].height

----------------------------------------------------------------------------
(* C8 *)

\* a is an exact multiple of p
Multiple(a, p) ==
  LET m == IF a >= 0 THEN a ELSE 0 - a
  IN \E k \in (0 - m)..m : a = k * p

\* C8: on a horizontal layer of pitch p check_alignment returns true exactly
\* when x and x + width are multiples of p, on a vertical layer exactly when
\* y and y + height are; so on a horizontal layer x = 0, width = 2p passes,
\* and x = 1, width = 2p fails when p does not divide 1.
C8_AlignedIffMultiples ==
  align.result \notin {"idle", "pending"} =>
    LET p == align.layer.pitch
    IN /\ align.layer.dir = "Horizontal" =>
            /\ (align.result = "True") <=>
                 (Multiple(align.x, p) /\ Multiple(align.x + align.width, p))
            /\ (align.x = 0 /\ align.width = p + p) => align.result = "True"
            /\ (align.x = 1 /\ align.width = p + p /\ ~Multiple(1, p))
                 => align.result # "True"
       /\ align.layer.dir = "Vertical" =>
            (align.result = "True") <=>
              (Multiple(align.y, p) /\ Multiple(align.y + align.height, p))

C8_Witness ==
  /\ align.layer.dir = "Horizontal"
  /\ align.x = 1
  /\ align.width = align.layer.pitch + align.layer.pitch
  /\ ~Multiple(1, align.layer.pitch)
  /\ align.result = "False"

----------------------------------------------------------------------------
(* C9 *)

\* The box of constraint c breaks the requirement of layer l.
Breaks(c, l) ==
  \/ /\ l.dir = "Horizontal"
     /\ ~(Multiple(c.x, l.pitch) /\ Multiple(c.x + c.width, l.pitch))
  \/ /\ l.dir = "Vertical"
     /\ ~(Multiple(c.y, l.pitch) /\ Multiple(c.y + c.height, l.pitch))

FailingLayers(c) == { n \in DOMAIN layers : Breaks(c, layers[n]) }

----------------------------------------------------------------------------
(* C10 *)

\* The definitions of a file list in scan order, up to the first file that
\* cannot be read.
RECURSIVE ScanOrder(_, _)
ScanOrder(files, i) ==
  IF i > Len(files) \/ files[i] \in Unreadable THEN << >>
  ELSE [k \in 1..Len(FileContents(files[i])) |->
          [name |-> FileContents(files[i])[k].name, file |-> files[i],
           body |-> FileContents(files[i])[k].body]]
       \o ScanOrder(files, i + 1)

LastDefinition(scan, name) ==
  CHOOSE k \in 1..Len(scan) :
    scan[k].name = name /\ \A j \in (k + 1)..Len(scan) : scan[j].name # name

\* C10: after a load, every module name the load scanned is registered to
\* the Module created from its last definition in scan order, which carries
\* that definition's file and, once resolved, its instances only; defining
\* a name twice raises no error.
C10_LastDefinitionWins ==
  last_op.kind = "load" =>
    LET scan == ScanOrder(last_load.files, 1)
    IN /\ (\A i \in 1..Len(last_load.files) : last_load.files[i] \notin Unreadable)
            => last_load.err = ""
       /\ \A k \in 1..Len(scan) :
            LET last == LastDefinition(scan, scan[k].name)
                mid  == last_load.base + last - 1
            IN /\ scan[k].name \in DOMAIN modules
               /\ modules[scan[k].name] = mid
               /\ objs[mid].name = scan[k].name
               /\ objs[mid].file = scan[last].file
               /\ DOMAIN objs[mid].instances =
                    IF last_load.err = ""
                    THEN { scan[last].body[j][2] : j \in 1..Len(scan[last].body) }
                    ELSE {}

\* A module name defined twice in one load, and the later definition is the
\* one registered.
C10_Witness ==
  /\ LoadCompleted
  /\ last_load.files = << "top.sv", "soc.sv" >>
  /\ objs[modules["top"]].file = "soc.sv"
  /\ DOMAIN objs[modules["top"]].instances = {"u1", "inst0"}

----------------------------------------------------------------------------
(* C11 *)

\* The latest operation was a load whose file list names a file that cannot
\* be read.
LoadMetUnreadable ==
  /\ last_op.kind = "load"
  /\ \E i \in 1..Len(last_load.files) : last_load.files[i] \in Unreadable

\* The definitions of the readable files of a list.
ReadableDefs(files) ==
  UNION { { FileContents(files[i])[k] : k \in 1..Len(FileContents(files[i])) } :
            i \in { j \in 1..Len(files) : files[j] \notin Unreadable } }

\* C11: a load that meets an unreadable file does not abort, registers the
\* modules of every other file of the list, and runs the resolution phase
\* on them (every instance of their bodies exists afterwards).
C11_AsStated ==
  LoadMetUnreadable =>
    /\ last_load.err = ""
    /\ \A d \in ReadableDefs(last_load.files) :
         /\ d.name \in DOMAIN modules
         /\ \A j \in 1..Len(d.body) :
              d.body[j][2] \in DOMAIN objs[modules[d.name]].instances

----------------------------------------------------------------------------
(* C12 *)

\* The segments of the path looked up, as dictionary keys.
LookedKeys == [i \in 1..Len(Split(looked.path)) |-> Key(Split(looked.path)[i])]

\* The first segment names a module, and the second names no instance of it.
SecondSegmentUnknown ==
  /\ Len(LookedKeys) >= 2
  /\ LookedKeys[1] \in DOMAIN modules
  /\ LookedKeys[2] \notin DOMAIN objs[modules[LookedKeys[1]]].instances

\* The first two segments lead to a module, and the third names no instance
\* of it.
ThirdSegmentUnknown ==
  /\ Len(LookedKeys) >= 3
  /\ LookedKeys[1] \in DOMAIN modules
  /\ LookedKeys[2] \in DOMAIN objs[modules[LookedKeys[1]]].instances
  /\ LET via == objs[modules[LookedKeys[1]]].instances[LookedKeys[2]].module
     IN /\ via.k = "module"
        /\ LookedKeys[3] \notin DOMAIN objs[via.id].instances

\* C12: for every path, get_module_by_path returns a module, a macro, a
\* type name or None and raises nothing; it returns None when the first
\* segment names no registered module and when a segment names no instance
\* of the module the walk stands at.
C12_LookupNeverRaises ==
  looked.result.k # "idle" =>
    /\ looked.result.k \in {"module", "macro", "str", "none"}
    /\ LookedKeys[1] \notin DOMAIN modules => looked.result = NoneRef
    /\ SecondSegmentUnknown => looked.result = NoneRef
    /\ ThirdSegmentUnknown => looked.result = NoneRef

\* A lookup whose third segment names no instance of the module reached.
C12_Witness ==
  /\ ThirdSegmentUnknown
  /\ looked.result = NoneRef

----------------------------------------------------------------------------
(* C13 *)

\* C13: whatever a reader on another thread observes while the load runs,
\* every instance of a registered module that is Pending is in the pending
\* index, and every constraint in a module's path map is in that module's
\* ordered list.
C13_AsStated ==
  seen.n > 0 =>
    /\ \A inst \in seen.pending : \E key \in DOMAIN seen.index : inst \in seen.index[key]
    /\ \A m \in DOMAIN seen.mapped : seen.mapped[m] \subseteq seen.listed[m]

----------------------------------------------------------------------------
(* C14 *)

\* The constraints add_constraint was called with on module mid, in call
\* order: constraint objects are numbered as they are attached.
RECURSIVE CallsOnFrom(_, _)
CallsOnFrom(mid, cid) ==
  IF cid > Len(cons) THEN << >>
  ELSE (IF cons[cid].module = ModRef(mid) THEN << cid >> ELSE << >>)
       \o CallsOnFrom(mid, cid + 1)

CallsOn(mid) == CallsOnFrom(mid, 1)

\* The latest call on mid with path p.
LatestWithPath(mid, p) ==
  LET calls == CallsOn(mid)
  IN calls[CHOOSE k \in 1..Len(calls) :
             /\ cons[calls[k]].path = p
             /\ \A j \in (k + 1)..Len(calls) : cons[calls[j]].path # p]

\* The list of every module holds one entry per call in call order, and the
\* path map holds, for every path of a call, the constraint of the latest.
ListAndMapFollowCalls ==
  \A mid \in DOMAIN objs :
    /\ objs[mid].constraints_list = CallsOn(mid)
    /\ DOMAIN objs[mid].constraints =
         { cons[CallsOn(mid)[k]].path : k \in 1..Len(CallsOn(mid)) }
    /\ \A p \in DOMAIN objs[mid].constraints :
         objs[mid].constraints[p] = LatestWithPath(mid, p)

\* No step takes an entry out of a list or moves one: the list before the
\* step is the beginning of the list after it.
ListOnlyGrows ==
  \A mid \in DOMAIN objs :
    /\ Len(objs'[mid].constraints_list) >= Len(objs[mid].constraints_list)
    /\ SubSeq(objs'[mid].constraints_list, 1, Len(objs[mid].constraints_list))
         = objs[mid].constraints_list

\* C14: after any sequence of add_constraint calls on a module the ordered
\* list holds one entry per call in call order, also for a path already
\* present, and never shrinks; the path map holds for every path exactly
\* the constraint of the most recent call with that path.
C14_ListAppendsMapOverwrites == [](ListAndMapFollowCalls) /\ [][ListOnlyGrows]_vars

\* Two calls with one path on one module: both are in the list, the later
\* one is in the map.
C14_Witness ==
  \E mid \in DOMAIN objs :
    \E i, j \in 1..Len(objs[mid].constraints_list) :
      /\ i < j
      /\ cons[objs[mid].constraints_list[i]].path = cons[objs[mid].constraints_list[j]].path
      /\ objs[mid].constraints[cons[objs[mid].constraints_list[j]].path]
           = objs[mid].constraints_list[j]
      /\ last_reg.n >= 1

----------------------------------------------------------------------------
(* C15 *)

\* The entries of a list of constraints that are of class cls, in order.
RECURSIVE OfClassFrom(_, _, _)
OfClassFrom(list, cls, k) ==
  IF k > Len(list) THEN << >>
  ELSE (IF cons[list[k]].cls = cls THEN << list[k] >> ELSE << >>)
       \o OfClassFrom(list, cls, k + 1)

OfClass(list, cls) == OfClassFrom(list, cls, 1)

\* The top-level slot is the latest top-level constraint of the list (None
\* when the list has none) and the children are its hierarchical ones.
SlotAndChildrenFollowList ==
  \A mid \in DOMAIN objs :
    LET tops == OfClass(objs[mid].constraints_list, "ModuleTopLevel")
    IN /\ objs[mid].top_constraint = IF tops = << >> THEN 0 ELSE tops[Len(tops)]
       /\ objs[mid].children = OfClass(objs[mid].constraints_list, "ModuleHierarchical")

\* A step that adds only obstruction, overlap and hard-macro constraints to
\* a module changes neither its slot nor its children.
OtherKindsChangeNeither ==
  \A mid \in DOMAIN objs :
    (\A k \in (Len(objs[mid].constraints_list) + 1)..Len(objs'[mid].constraints_list) :
       cons'[objs'[mid].constraints_list[k]].cls
         \in {"ModuleObstruction", "ModuleOverlap", "ModuleHardMacro"})
      => /\ objs'[mid].top_constraint = objs[mid].top_constraint
         /\ objs'[mid].children = objs[mid].children

\* C15: after any sequence of add_constraint calls on a module the
\* top-level slot is the most recently added TopLevel constraint (unset if
\* there is none), the children list is the subsequence of Hierarchical
\* constraints of the ordered list, and adding an Obstruction, Overlap or
\* HardMacro constraint changes neither.
C15_SlotAndChildren == [](SlotAndChildrenFollowList) /\ [][OtherKindsChangeNeither]_vars

\* A module with a top-level constraint added twice and a hierarchical one,
\* among constraints of other kinds.
C15_Witness ==
  \E mid \in DOMAIN objs :
    LET tops == OfClass(objs[mid].constraints_list, "ModuleTopLevel")
    IN /\ Len(tops) > 1
       /\ objs[mid].top_constraint = tops[Len(tops)]
       /\ objs[mid].children # << >>
       /\ Len(objs[mid].constraints_list) > Len(objs[mid].children) + Len(tops)

----------------------------------------------------------------------------
(* C16 *)

\* The owner of every attached constraint is the registered module that
\* bears the name of the first segment of the constraint's path.
OwnerIsFirstSegment ==
  \A cid \in 1..Len(cons) :
    /\ cons[cid].module.k = "module"
    /\ objs[cons[cid].module.id].name = Key(Split(cons[cid].path)[1])
    /\ Registered(cons[cid].module.id)

\* No step gives a constraint another owner.
OwnerNeverChanges ==
  \A cid \in 1..Len(cons) : cons'[cid].module = cons[cid].module

----------------------------------------------------------------------------
(* C17 *)

\* The type name instance inst waits for is the name of a macro of the
\* library and of a registered module.
PendingOnMacroAndModule(inst) ==
  /\ Pending(inst)
  /\ ModuleOf(inst).n \in macro_library
  /\ ModuleOf(inst).n \in DOMAIN modules

\* A resolution pass over a Pending instance whose type name is both a macro
\* and a module binds it to the macro; no step binds it to the module.
PendingPrefersMacro ==
  \A inst \in Instances :
    PendingOnMacroAndModule(inst) =>
      /\ objs'[inst[1]].instances[inst[2]].module.k # "module"
      /\ last_op' = Op("reparse", inst[1]) =>
           objs'[inst[1]].instances[inst[2]].module = MacroRef(ModuleOf(inst).n)

\* After a load, an instance the load created with a type name that is both
\* a macro and a module is bound to the macro.
LoadPrefersMacro ==
  LoadCompleted =>
    \A name \in DOMAIN modules :
      LET m == objs[modules[name]]
      IN modules[name] >= last_load.base =>
           \A j \in 1..Len(m.body) :
             (/\ m.body[j][1] \in last_load.macros
              /\ m.body[j][1] \in DOMAIN modules
              /\ \A i \in 1..(j - 1) : m.body[i][2] # m.body[j][2])
               => m.instances[m.body[j][2]].module = MacroRef(m.body[j][1])

\* C17: when the type name of a Pending instance is both the name of a
\* macro of the library and the name of a registered module, resolution
\* binds the instance to the macro, never to the module.
C17_MacroBeforeModule == [](LoadPrefersMacro) /\ [][PendingPrefersMacro]_vars

\* No load ran with a macro "leaf", a module "leaf" is registered, and a
\* later resolution pass bound an instance that waited for "leaf" to the
\* macro.
C17_Witness ==
  /\ last_op.kind = "reparse"
  /\ "leaf" \notin last_load.macros
  /\ "leaf" \in DOMAIN modules
  /\ \E iname \in DOMAIN objs[last_op.arg].instances :
       objs[last_op.arg].instances[iname].module = MacroRef("leaf")

----------------------------------------------------------------------------
(* C18 *)

\* unknown_macros[key] of the defaultdict: the empty set for a key that was
\* never written.
IndexAt(key) == IF key \in DOMAIN unknown_macros THEN unknown_macros[key] ELSE {}

\* C18: an instance that remains Pending after a resolution attempt is in
\* the pending index under the key equal to its type name, and the entry of
\* a type name holds exactly the instances that wait for that type.
C18_AsStated ==
  /\ \A inst \in Instances :
       (Pending(inst) /\ InPendingIndex(inst)) => inst \in IndexAt(ModuleOf(inst).n)
  /\ \A key \in DOMAIN unknown_macros : \A inst \in unknown_macros[key] \cap Instances :
       Pending(inst) => ModuleOf(inst).n = key

----------------------------------------------------------------------------
(* C19 *)

\* A resolution pass over the module of inst, which is Resolved(Module):
\* afterwards inst is bound to the object the module map holds under the
\* target's name, or, when the map has no such name, inst is Pending on that
\* name and in the pending index.
RevalidationFollowsMap ==
  \A inst \in Instances :
    (ResolvedModule(inst) /\ last_op' = Op("reparse", inst[1])) =>
      LET nm  == objs[ModuleOf(inst).id].name
          new == objs'[inst[1]].instances[inst[2]].module
      IN IF nm \in DOMAIN modules'
         THEN new = ModRef(modules'[nm])
         ELSE /\ new = StrRef(nm)
              /\ \E key \in DOMAIN unknown_macros' : inst \in unknown_macros'[key]

\* A load re-runs resolution on the instances its own body lines name twice:
\* every instance of a module the load created that is bound to a module is
\* bound to the object registered under that module's name.
LoadBindsToRegistered ==
  LoadCompleted =>
    \A inst \in Instances :
      (inst[1] >= last_load.base /\ ResolvedModule(inst)) => Registered(ModuleOf(inst).id)

\* C19: re-running resolution on an instance that is Resolved(Module) binds
\* it to the module currently registered under the target's name; were the
\* name gone from the module map the instance would become Pending on that
\* name and be entered in the pending index.
C19_RevalidationFollowsMap == [](LoadBindsToRegistered) /\ [][RevalidationFollowsMap]_vars

\* Module mid was loaded before the latest load and its instance inst0 was
\* bound to a module when that load ended; the load registered a new object
\* under the target's name, and the resolution pass that followed moved the
\* instance to the new object.
C19_Witness ==
  /\ last_op.kind = "reparse"
  /\ "mid" \in DOMAIN modules
  /\ last_op.arg = modules["mid"]
  /\ modules["mid"] < last_load.base
  /\ last_load.graph["mid"]["inst0"].state = "module"
  /\ ModuleOf(<<modules["mid"], "inst0">>).k = "module"
  /\ ModuleOf(<<modules["mid"], "inst0">>).id >= last_load.base

----------------------------------------------------------------------------
(* C20 *)

\* A step takes a Resolved instance to Pending only as the re-validation of
\* a resolution pass over its module that finds the target's name absent
\* from the module map.
ResolvedStaysResolved ==
  \A inst \in Instances :
    (~Pending(inst) /\ objs'[inst[1]].instances[inst[2]].module.k = "str") =>
      /\ ResolvedModule(inst)
      /\ last_op' = Op("reparse", inst[1])
      /\ objs[ModuleOf(inst).id].name \notin DOMAIN modules'

\* No step changes an instance that is Resolved(Macro).
MacroStaysBound ==
  \A inst \in Instances :
    ResolvedMacro(inst) => objs'[inst[1]].instances[inst[2]] = objs[inst[1]].instances[inst[2]]

\* C20: across loads and resolution passes an instance never moves from a
\* Resolved state to Pending unless a re-validation finds its target's name
\* absent from the module map, and an instance that is Resolved(Macro) is
\* left unchanged by every later resolution pass.
C20_NoBackwardTransition == [][ResolvedStaysResolved /\ MacroStaysBound]_vars

\* Module top came out of the latest load with inst0 bound to a macro and u1
\* bound to a module; a resolution pass over top has run since, and both
\* are bound as they were.
C20_Witness ==
  /\ last_op.kind = "reparse"
  /\ "top" \in DOMAIN modules
  /\ last_op.arg = modules["top"]
  /\ "u1" \in DOMAIN last_load.graph["top"]
  /\ last_load.graph["top"]["inst0"].state = "macro"
  /\ last_load.graph["top"]["u1"].state = "module"
  /\ ModuleOf(<<modules["top"], "inst0">>) = MacroRef(last_load.graph["top"]["inst0"].target)
  /\ ResolvedModule(<<modules["top"], "u1">>)

----------------------------------------------------------------------------
(* C21 *)

\* The node the walk stands at after consuming the first j segments of the
\* path looked up: the registered module of the first segment, then the
\* target of the named instance while the node is a module; "stopped" past
\* a node that is no module.
NodeAfter[j \in 1..Len(LookedKeys)] ==
  IF j = 1 THEN get_module_by_name(Hier, LookedKeys[1])
  ELSE LET prev == NodeAfter[j - 1]
       IN IF prev.k # "module" THEN [k |-> "stopped", n |-> "", id |-> 0]
          ELSE IF LookedKeys[j] \in DOMAIN objs[prev.id].instances
               THEN objs[prev.id].instances[LookedKeys[j]].module
               ELSE NoneRef

\* C21: when the node reached before a segment is consumed is a macro or an
\* unresolved type name, get_module_by_path returns that node, whatever
\* segments remain.
C21_WalkStopsAtLeaf ==
  looked.result.k # "idle" =>
    \A j \in 1..(Len(LookedKeys) - 1) :
      NodeAfter[j].k \in {"macro", "str"} => looked.result = NodeAfter[j]

\* A lookup of three segments or more whose second segment leads to a macro
\* or to an unresolved type name, which is what was returned.
C21_Witness ==
  /\ Len(LookedKeys) >= 3
  /\ NodeAfter[2].k \in {"macro", "str"}
  /\ looked.result = NodeAfter[2]

----------------------------------------------------------------------------
(* C22 *)

\* The last segment of a constraint path, as a dictionary key.
LeafKey(path) == Key(Split(path)[Len(Split(path))])

\* What the claim has a HardMacro constraint of this path bound to, in a
\* registry h with macro library lib.
LeafFallback(h, lib, path) ==
  LET found == get_module_by_path(h, path)
  IN IF found.k = "macro" THEN found ELSE get_macro(lib, LeafKey(path))

\* C22: a HardMacro constraint is bound to the macro its path resolves to
\* and, when the path does not resolve to a macro, to what the macro library
\* holds under the last segment of the path.
C22_AsStated ==
  [][last_reg'.n # last_reg.n =>
       \A cid \in (Len(cons) + 1)..Len(cons') :
         cons'[cid].cls = "ModuleHardMacro" =>
           cons'[cid].master_module = LeafFallback(Hier, macro_library, cons'[cid].path)]_vars

----------------------------------------------------------------------------
(* C23 *)

\* What the claim has a Hierarchical constraint of this master name bound
\* to: the registered module of that name, else the macro of that name.
ModuleThenMacro(h, lib, master) ==
  IF master \in DOMAIN h.modules THEN ModRef(h.modules[master]) ELSE get_macro(lib, master)

\* C23: a Hierarchical constraint is bound to the registered module its
\* master names and, when no such module is registered, to the macro of that
\* name; a master that names a macro and no module is bound.
C23_AsStated ==
  [][last_reg'.n # last_reg.n =>
       \A cid \in (Len(cons) + 1)..Len(cons') :
         cons'[cid].cls = "ModuleHierarchical" =>
           cons'[cid].master_module = ModuleThenMacro(Hier, macro_library, cons'[cid].master)]_vars

----------------------------------------------------------------------------
(* C24 *)

\* The constraint side as the first k records of a batch leave it, from the
\* state the registration starts in.
AfterRecords(batch, k) ==
  AttachAll([cons |-> cons, objs |-> objs, err |-> "", done |-> 0],
            Hier, macro_library, SubSeq(batch, 1, k), 1)

\* Constraint cid is attached to its owner in state st: in the path map, the
\* ordered list and the index map, and in the top-level slot or the children
\* list when of that kind.
FullyAttached(st, cid) ==
  LET c == st.cons[cid]
      m == st.objs[c.module.id]
  IN /\ c.path \in DOMAIN m.constraints
     /\ m.constraints[c.path] = cid
     /\ \E k \in DOMAIN m.constraints_list : m.constraints_list[k] = cid
     /\ cid \in DOMAIN m.constraints_indices
     /\ c.cls = "ModuleTopLevel" => m.top_constraint = cid
     /\ c.cls = "ModuleHierarchical" => \E k \in DOMAIN m.children : m.children[k] = cid

\* Constraint index cid is in no structure of any module of state st.
AttachedNowhere(st, cid) ==
  \A mid \in DOMAIN st.objs :
    LET m == st.objs[mid]
    IN /\ \A p \in DOMAIN m.constraints : m.constraints[p] # cid
       /\ \A k \in DOMAIN m.constraints_list : m.constraints_list[k] # cid
       /\ cid \notin DOMAIN m.constraints_indices
       /\ m.top_constraint # cid
       /\ \A k \in DOMAIN m.children : m.children[k] # cid

\* The step of record k of a registration: it attaches the record's
\* constraint in full, or it fails and changes nothing.
RecordStepIsAtomic(batch, k) ==
  LET before == AfterRecords(batch, k - 1)
      after  == AfterRecords(batch, k)
      cid    == Len(before.cons) + 1
  IN before.err = "" =>
       IF after.err = ""
       THEN /\ Len(after.cons) = cid
            /\ FullyAttached(after, cid)
       ELSE /\ after.cons = before.cons
            /\ after.objs = before.objs
            /\ AttachedNowhere(after, cid)

\* C24: for every record of a registration, the deserialize-and-attach step
\* leaves the constraint in the owner's path map, ordered list and index map
\* (and top-level slot or children list when of that kind), or fails and
\* leaves every module's constraint state as it was before the step; the
\* registration ends in the state its last step left.
C24_AttachIsAtomic ==
  [][last_reg'.n # last_reg.n =>
       /\ \A k \in 1..Len(last_reg'.batch) : RecordStepIsAtomic(last_reg'.batch, k)
       /\ cons' = AfterRecords(last_reg'.batch, last_reg'.done).cons
       /\ objs' = AfterRecords(last_reg'.batch, last_reg'.done).objs]_vars

\* A registration attached at least one constraint and then met a record
\* whose step failed; the constraints attached are the ones of the records
\* ahead of it.
C24_Witness ==
  /\ last_reg.n >= 1
  /\ last_reg.err # ""
  /\ last_reg.done >= 1
  /\ Len(cons) = last_reg.had + last_reg.done
  /\ \A cid \in (last_reg.had + 1)..Len(cons) :
       cid \in DOMAIN objs[cons[cid].module.id].constraints_indices

----------------------------------------------------------------------------
(* C25 *)

\* The module names the files of the latest load define.
DefinedInLoad ==
  { ScanOrder(last_load.files, 1)[k].name : k \in 1..Len(ScanOrder(last_load.files, 1)) }

\* The type name instance inst was created with: the one of the first body
\* line of its module that names it.
DeclaredType(inst) ==
  LET body == objs[inst[1]].body
      j == CHOOSE j \in 1..Len(body) :
             body[j][2] = inst[2] /\ \A i \in 1..(j - 1) : body[i][2] # inst[2]
  IN body[j][1]

\* C25: resolution starts when every file of the load has been discovered:
\* whatever the order of the files, an instance the load created ends it
\* Resolved when its type name is defined as a module in a file of the load
\* or is a macro of the library, and ends it Pending only when its type name
\* is neither.
C25_ResolutionAfterDiscovery ==
  LoadCompleted =>
    \A inst \in Instances :
      inst[1] >= last_load.base =>
        /\ (DeclaredType(inst) \in DefinedInLoad \/ DeclaredType(inst) \in last_load.macros)
             => ~Pending(inst)
        /\ Pending(inst)
             => /\ DeclaredType(inst) \notin DefinedInLoad
                /\ DeclaredType(inst) \notin last_load.macros
                /\ ModuleOf(inst) = StrRef(DeclaredType(inst))

\* A load of soc.sv then leaf.sv: the instance of mid whose type is defined
\* in the later file is bound to that module, the instance of top whose type
\* is a macro is bound to the macro, and the instance with a type that is
\* neither is Pending.
C25_Witness ==
  /\ LoadCompleted
  /\ last_load.files = << "soc.sv", "leaf.sv" >>
  /\ "foo_macro" \in last_load.macros
  /\ "leaf" \notin last_load.macros
  /\ ModuleOf(<<modules["mid"], "inst0">>) = ModRef(modules["leaf"])
  /\ ResolvedMacro(<<modules["top"], "inst0">>)
  /\ Pending(<<modules["mid"], "u1">>)

----------------------------------------------------------------------------
(* C26 *)

\* Every instance the pending index holds, under any key.
Indexed == UNION { unknown_macros[key] : key \in DOMAIN unknown_macros }

\* The Pending instances of the module objects the module map holds.
PendingOfRegistered == { inst \in Instances : Registered(inst[1]) /\ Pending(inst) }

\* The pending index holds those instances and no other.
IndexIsPendingOfRegistered == Indexed = PendingOfRegistered

\* A load of the file list of the load before it, with the macro library
\* unchanged, does not add to the pending index.
ReloadAddsNoPending ==
  (last_op'.kind = "load" /\ loads' = loads + 1 /\ last_load'.rerun)
    => Cardinality(UNION { unknown_macros'[key] : key \in DOMAIN unknown_macros' })
         <= Cardinality(Indexed)

\* C26: after any sequence of loads the pending index holds exactly the
\* Pending instances of the modules in the module map, none of a module
\* object that was overwritten or never registered, and loading an unchanged
\* file set again does not make it larger.
C26_AsStated == [](IndexIsPendingOfRegistered) /\ [][ReloadAddsNoPending]_vars

----------------------------------------------------------------------------
(* C27 *)

\* C27: after a load, every instance of a registered module that is
\* Resolved(Module) is bound to the module object registered under the
\* target's name, also when the load has just redefined that name and left
\* the instance's own module untouched.
C27_AsStated ==
  last_op.kind = "load" =>
    \A inst \in Instances :
      (Registered(inst[1]) /\ ResolvedModule(inst)) => Registered(ModuleOf(inst).id)

----------------------------------------------------------------------------
(* C28 *)

\* A registration that fails at record k = done + 1 leaves the constraints of
\* the records ahead of k attached as those records left them, one constraint
\* per record and in their order, and attaches nothing of the records after.
StopsAtFirstFailure ==
  (last_reg'.n # last_reg.n /\ last_reg'.err # "") =>
    LET batch == last_reg'.batch
        k     == last_reg'.done + 1
    IN /\ k <= Len(batch)
       /\ AfterRecords(batch, k - 1).err = ""
       /\ AfterRecords(batch, k).err = last_reg'.err
       /\ cons' = AfterRecords(batch, k - 1).cons
       /\ objs' = AfterRecords(batch, k - 1).objs
       /\ Len(cons') = Len(cons) + k - 1
       /\ \A j \in 1..(k - 1) :
            /\ cons'[Len(cons) + j].path = Record(batch[j]).path
            /\ cons'[Len(cons) + j].type = Record(batch[j]).type
            /\ FullyAttached([cons |-> cons', objs |-> objs'], Len(cons) + j)

\* C28: when record k of a batch fails to deserialize or attach, the
\* constraints of records 1..k-1 stay attached as they were before the
\* failure and no record after k is deserialized or attached.
C28_BatchStopsAtFailure == [][StopsAtFirstFailure]_vars

\* A registration failed at a record that has an attached record ahead of it
\* and, after it, a record of a registered type whose owner exists; the
\* constraints are those of the records ahead only.
C28_Witness ==
  /\ last_reg.n >= 1
  /\ last_reg.err # ""
  /\ last_reg.done >= 1
  /\ last_reg.done + 2 <= Len(last_reg.batch)
  /\ Record(last_reg.batch[last_reg.done + 2]).type \in RegisteredTypes
  /\ Key(Split(Record(last_reg.batch[last_reg.done + 2]).path)[1]) \in DOMAIN modules
  /\ Len(cons) = last_reg.had + last_reg.done

----------------------------------------------------------------------------
(* C29 *)

\* Record r has a registered type, and the first segment of its path names
\* no registered module.
OrphanRecord(r) ==
  /\ Record(r).type \in RegisteredTypes
  /\ Key(Split(Record(r).path)[1]) \notin DOMAIN modules

\* The constraint structures of every module object.
ConstraintState(os) ==
  [mid \in DOMAIN os |->
     [constraints |-> os[mid].constraints, constraints_list |-> os[mid].constraints_list,
      top_constraint |-> os[mid].top_constraint, children |-> os[mid].children]]

\* A registration whose batch has an orphan record at j ends in an error at
\* or before j; when it is record j that fails, its step has changed no
\* module; no constraint of the orphan's path is attached anywhere.
OrphanIsNotAttached ==
  last_reg'.n # last_reg.n =>
    \A j \in 1..Len(last_reg'.batch) :
      OrphanRecord(last_reg'.batch[j]) =>
        /\ last_reg'.err # ""
        /\ last_reg'.done < j
        /\ last_reg'.done = j - 1 =>
             ConstraintState(objs') = ConstraintState(AfterRecords(last_reg'.batch, j - 1).objs)
        /\ \A cid \in (Len(cons) + 1)..Len(cons') :
             cons'[cid].path # Record(last_reg'.batch[j]).path
        /\ \A mid \in DOMAIN objs' :
             Record(last_reg'.batch[j]).path \notin DOMAIN objs'[mid].constraints

\* C29: a record of a registered type whose path's first segment names no
\* registered module is never attached to any module; its attach step ends
\* in an error and leaves every module's path map, ordered list, top-level
\* slot and children list unchanged.
C29_OrphanNeverAttached == [][OrphanIsNotAttached]_vars

\* A registration attached a constraint and then failed at an orphan record;
\* every module's ordered list is as the records ahead left it.
C29_Witness ==
  /\ last_reg.n >= 1
  /\ last_reg.err = "AttributeError"
  /\ last_reg.done >= 1
  /\ OrphanRecord(last_reg.batch[last_reg.done + 1])
  /\ \A mid \in DOMAIN last_reg.before : objs[mid].constraints_list = last_reg.before[mid]

----------------------------------------------------------------------------
(* C30 *)

\* set_top_level_module changes the pointer and nothing else of the registry.
SetTopChangesPointerOnly ==
  (last_op'.kind = "set_top" /\ top_level' # top_level) =>
    /\ modules' = modules
    /\ objs' = objs
    /\ unknown_macros' = unknown_macros
    /\ macro_library' = macro_library

\* The top-level pointer is unset or on the module object registered under
\* that object's name.
TopLevelIsRegistered == top_level = 0 \/ Registered(top_level)

\* C30: in every reachable state the top-level pointer is unset or refers to
\* the module currently registered under that module's name, also after a
\* load that redefines the name; set_top_level_module changes only the
\* pointer.
C30_AsStated == [](TopLevelIsRegistered) /\ [][SetTopChangesPointerOnly]_vars

====
